---------------------------- MODULE Spec2Model ----------------------------
(***************************************************************************)
(* Microtonal step sequencer (js/main.js): Tuning, Sequence,               *)
(* NotesOnBeatIterator, Scheduler and the Driver's event handlers.         *)
(*                                                                         *)
(* Time is in milliseconds (the code's seconds times 1000).  A JavaScript  *)
(* number is a record: Fin(v), NaN or PlusInf.  A frequency               *)
(* referencePitch * 2^(oct + step/div) is the record                       *)
(* [ref, oct, step, div], which is exact for an equal division of the      *)
(* octave.  A text typed into a form field is a tuple of characters.      *)
(***************************************************************************)
EXTENDS Integers, Sequences, FiniteSets, TLC

(***************************************************************************)
(* Bounds of the model.                                                    *)
(***************************************************************************)
\* number of audio-clock steps explored
MaxTicks == 5
\* number of input events (bpm, waveform, checkbox) after Go
MaxUserEvents == 2
\* iterations of the drain loop after which an invocation counts as hung
MaxDrain == 10
\* number of audio-clock steps explored in the scenario of main()
MaxTicksE2E == 160
\* number of setNote/unsetNote calls explored on a fresh grid
MaxGridCalls == 3
\* number of hasNext/next calls explored on one iterator
MaxIterCalls == 9
\* number of setNote/unsetNote calls explored with any coordinates
MaxApiCalls == 2
\* octaves -MaxOctave .. MaxOctave are those getNoteInOctave is tried on
MaxOctave == 8
\* steps of the audio clock in the prototype's runs (1.5 s: beat 3 is reached)
MaxTicksPrototype == 60
\* steps of the audio clock a timer's callback may run after it is due
MaxLate == 2

(***************************************************************************)
(* JavaScript numbers.                                                     *)
(***************************************************************************)
Fin(v) == [k |-> "fin", v |-> v]
NaN == [k |-> "nan", v |-> 0]
PlusInf == [k |-> "inf", v |-> 0]

IsFinite(x) == x.k = "fin"

\* a + b
Add(a, b) ==
  IF a.k = "nan" \/ b.k = "nan" THEN NaN
  ELSE IF a.k = "inf" \/ b.k = "inf" THEN PlusInf
  ELSE Fin(a.v + b.v)

\* a < b (false when either side is NaN)
Lt(a, b) ==
  IF a.k = "nan" \/ b.k = "nan" THEN FALSE
  ELSE IF a.k = "inf" THEN FALSE
  ELSE IF b.k = "inf" THEN TRUE
  ELSE a.v < b.v

\* a >= b (false when either side is NaN)
Ge(a, b) ==
  IF a.k = "nan" \/ b.k = "nan" THEN FALSE
  ELSE IF a.k = "inf" THEN TRUE
  ELSE IF b.k = "inf" THEN FALSE
  ELSE a.v >= b.v

\* a > 0
IsPositive(a) == Lt(Fin(0), a)

(***************************************************************************)
(* Texts of the form fields and their conversion to numbers.               *)
(***************************************************************************)
DigitValue(c) ==
  CASE c = "0" -> 0 [] c = "1" -> 1 [] c = "2" -> 2 [] c = "3" -> 3
    [] c = "4" -> 4 [] c = "5" -> 5 [] c = "6" -> 6 [] c = "7" -> 7
    [] c = "8" -> 8 [] c = "9" -> 9 [] OTHER -> -1

IsDigit(c) == DigitValue(c) >= 0

\* length of the longest prefix of digits of text t from position i on
RECURSIVE DigitRun(_, _)
DigitRun(t, i) ==
  IF i <= Len(t) /\ IsDigit(t[i]) THEN 1 + DigitRun(t, i + 1) ELSE 0

\* value of the digits t[i..j], most significant first
RECURSIVE DigitsValue(_, _, _)
DigitsValue(t, i, j) ==
  IF j < i THEN 0 ELSE 10 * DigitsValue(t, i, j - 1) + DigitValue(t[j])

\* parseFloat(t): the longest numeric prefix (sign and digits), else NaN
ParseFloat(t) ==
  LET neg == Len(t) >= 1 /\ t[1] = "-"
      first == IF neg THEN 2 ELSE 1
      n == DigitRun(t, first)
      v == DigitsValue(t, first, first + n - 1)
  IN IF n = 0 THEN NaN ELSE Fin(IF neg THEN 0 - v ELSE v)

\* ToNumber(t), the coercion of a string operand of / and <: the whole text
\* must be numeric ("" is 0), else NaN
ToNumber(t) ==
  LET neg == Len(t) >= 1 /\ t[1] = "-"
      first == IF neg THEN 2 ELSE 1
      n == DigitRun(t, first)
      v == DigitsValue(t, first, first + n - 1)
  IN IF Len(t) = 0 THEN Fin(0)
     ELSE IF n = 0 \/ first + n - 1 # Len(t) THEN NaN
     ELSE Fin(IF neg THEN 0 - v ELSE v)

\* texts the bpm field may hold
BpmTexts ==
  { <<"6", "0">>, <<"1", "2", "0">>, <<"1", "2", "0", "0">>,
    <<"3", "0", "0", "0">>, <<"0">>, <<"-", "6", "0">>,
    <<"1", "2", "0", "a", "b", "c">> }

\* texts the waveform field may hold
WaveformTexts == { "square", "noise" }

\* the shapes an oscillator recognises
OscillatorTypes == { "sine", "square", "sawtooth", "triangle" }

\* texts of the edo and numBeats fields when Go is clicked
FieldTexts ==
  { [edo |-> <<"1">>, numBeats |-> <<"2">>] }


(***************************************************************************)
(* Program constants.                                                      *)
(***************************************************************************)
\* Scheduler.lookAheadAndSchedulePeriod: 25.0 ms
lookAheadAndSchedulePeriod == 25
\* Scheduler.scheduleAheadTime: 0.1 s, in ms
scheduleAheadTime == 100
\* 60 seconds, the numerator of the note period, in ms
MsPerMinute == 60000
\* reference pitch, low and high octave the Driver passes
ReferencePitch == 440
DriverLowOctave == 3
DriverHighOctave == 4
\* the octave a Tuning stores
StoredOctave == 4
\* the prototype's this.noteDuration = 0.1, in ms
PrototypeNoteDuration == 100
\* the audio clock advances in steps of one poll period
ClockStep == lookAheadAndSchedulePeriod

VARIABLES
  clickedGo,         \* Driver.setup: the closure variable clickedGo
  boxes,             \* the checkboxes renderGrid created: boxes[i][j]
  tuning,            \* Tuning.pitches (empty before Go)
  sequence,          \* the Sequence: beats, lowOctave, highOctave, seq
  bpm,               \* Scheduler.bpm, as stored (a text, or the number 120)
  waveform,          \* Scheduler.waveform
  currentNoteIndex,  \* Scheduler.currentNoteIndex
  nextNoteTime,      \* Scheduler.nextNoteTime
  timerID,           \* Scheduler.timerID (0 is null)
  timers,            \* pending timeouts: records [id, due]
  now,               \* audioCtx.currentTime
  events,            \* the sound events handed to the audio sink, in order
  hung,              \* an invocation of lookAheadAndSchedule never returned
  lastPoll,          \* history: the last invocation of lookAheadAndSchedule
  onTime,            \* history: every poll so far started < scheduleAheadTime
                     \* after the one before it
  lastEdit,          \* history: the last setNote/unsetNote call
  userEvents,        \* number of input events so far
  created,           \* history: Tuning/Sequence/Scheduler triples created
  cancelled,         \* window.clearTimeout was called with timerID
  iterator,          \* a NotesOnBeatIterator: beat, nextIndex
  iterLog            \* history: the calls made on iterator

vars ==
  << clickedGo, boxes, tuning, sequence, bpm, waveform, currentNoteIndex,
     nextNoteTime, timerID, timers, now, events, hung, lastPoll, onTime,
     lastEdit, userEvents, created, cancelled, iterator, iterLog >>

(***************************************************************************)
(* Tuning and EDOTuning.                                                   *)
(***************************************************************************)
\* the number of iterations of for (i = 0; i < bound; ++i)
LoopCount(bound) ==
  IF bound.k = "fin" /\ bound.v > 0 THEN bound.v ELSE 0

\* the result of arithmetic on undefined
NaNFrequency == [ref |-> 0, oct |-> 0, step |-> 0, div |-> 0]

\* an EDOTuning whose loop starts the powers of the ratio at one
EDOTuningStartsAtOne(referencePitch, divisions) ==
  [ i \in 0 .. (LoopCount(ToNumber(divisions)) - 1) |->
      [ref |-> referencePitch, oct |-> 0, step |-> i + 1,
       div |-> ToNumber(divisions).v] ]

\* new EDOTuning(referencePitch, divisions).pitches:
\* pitches[i] = referencePitch * Math.pow(2, 1 / divisions) ^ i
EDOTuning(referencePitch, divisions) ==
  [ i \in 0 .. (LoopCount(ToNumber(divisions)) - 1) |->
      [ref |-> referencePitch, oct |-> 0, step |-> i,
       div |-> ToNumber(divisions).v] ]

\* Tuning.length
TuningLength(pitches) == Cardinality(DOMAIN pitches)

\* Tuning.getNote(n)
getNote(pitches, n) ==
  IF n \in DOMAIN pitches THEN pitches[n] ELSE NaNFrequency

\* a getNoteInOctave that forgets the octave scale factor
getNoteInOctaveUnscaled(pitches, octave, note) == getNote(pitches, note)

\* 2 * frequency
Double(frequency) ==
  IF frequency = NaNFrequency THEN NaNFrequency
  ELSE [frequency EXCEPT !.oct = @ + 1]

\* Tuning.getNoteInOctave(octave, note)
getNoteInOctave(pitches, octave, note) ==
  LET p == getNote(pitches, note)
  IN IF p = NaNFrequency THEN NaNFrequency
     ELSE [p EXCEPT !.oct = p.oct + (octave - StoredOctave)]

(***************************************************************************)
(* Sequence.                                                               *)
(***************************************************************************)
\* new Sequence(beats, tuning, lowOctave, highOctave)
NewSequence(beats, pitches, lowOctave, highOctave) ==
  LET numOctaves == highOctave - lowOctave + 1
      cols == TuningLength(pitches) * numOctaves
  IN [ beats |-> beats, lowOctave |-> lowOctave, highOctave |-> highOctave,
       seq |-> [ i \in 0 .. (LoopCount(ToNumber(beats)) - 1) |->
                   [ j \in 0 .. (cols - 1) |-> FALSE ] ] ]

\* Sequence.length
SequenceLength(s) == Cardinality(DOMAIN s.seq)

\* Sequence.numOctaves
numOctaves(s) == s.highOctave - s.lowOctave + 1

\* the slot index both setNote and unsetNote compute
SlotIndex(s, pitches, octave, noteIndex) ==
  (octave - s.lowOctave) * TuningLength(pitches) + noteIndex

\* row[index] = value on a JavaScript array: an index past the end grows
\* the array (the holes read as undefined, which is falsy), a negative index
\* adds a property and leaves the elements and the length alone
ArrayStore(row, index, value) ==
  IF index < 0 THEN row
  ELSE LET length == Cardinality(DOMAIN row)
           last == IF index < length THEN length - 1 ELSE index
       IN [ j \in 0 .. last |->
              IF j = index THEN value
              ELSE IF j \in DOMAIN row THEN row[j] ELSE FALSE ]

\* this.seq[beat] is undefined, so the assignment to its element throws a
\* TypeError
StoreThrows(s, beat) == beat \notin DOMAIN s.seq

\* a setNote that flips the cell instead of setting it
setNoteToggles(s, pitches, beat, octave, noteIndex) ==
  IF StoreThrows(s, beat) THEN s
  ELSE LET index == SlotIndex(s, pitches, octave, noteIndex)
       IN [s EXCEPT !.seq[beat] =
             ArrayStore(@, index, index \notin DOMAIN @ \/ ~@[index])]

\* Sequence.setNote(beat, octave, noteIndex); the grid is as it was when
\* the call throws
setNote(s, pitches, beat, octave, noteIndex) ==
  IF StoreThrows(s, beat) THEN s
  ELSE [s EXCEPT !.seq[beat] =
          ArrayStore(@, SlotIndex(s, pitches, octave, noteIndex), TRUE)]

\* Sequence.unsetNote(beat, octave, noteIndex); the grid is as it was when
\* the call throws
unsetNote(s, pitches, beat, octave, noteIndex) ==
  IF StoreThrows(s, beat) THEN s
  ELSE [s EXCEPT !.seq[beat] =
          ArrayStore(@, SlotIndex(s, pitches, octave, noteIndex), FALSE)]

(***************************************************************************)
(* NotesOnBeatIterator: the record [beat, nextIndex] over sequence s.     *)
(***************************************************************************)
\* Sequence.getIteratorAtBeat(beat)
getIteratorAtBeat(beat) == [beat |-> beat, nextIndex |-> 0]

\* an advanceToNextActiveNote that never moves
advanceToNextActiveNoteStays(beatArray, nextIndex) == nextIndex

\* NotesOnBeatIterator.advanceToNextActiveNote: the new nextIndex
RECURSIVE advanceToNextActiveNote(_, _)
advanceToNextActiveNote(beatArray, nextIndex) ==
  IF nextIndex < Cardinality(DOMAIN beatArray) /\ ~beatArray[nextIndex]
  THEN advanceToNextActiveNote(beatArray, nextIndex + 1)
  ELSE nextIndex

\* a hasNext that steps over the active slot it finds
hasNextConsumes(s, it) ==
  LET beatArray == s.seq[it.beat]
      i == advanceToNextActiveNote(beatArray, it.nextIndex)
  IN [ it |-> [it EXCEPT !.nextIndex =
                 IF i < Cardinality(DOMAIN beatArray) THEN i + 1 ELSE i],
       value |-> i < Cardinality(DOMAIN beatArray) ]

\* NotesOnBeatIterator.hasNext: the iterator after the call and its answer
hasNext(s, it) ==
  LET beatArray == s.seq[it.beat]
      i == advanceToNextActiveNote(beatArray, it.nextIndex)
  IN [ it |-> [it EXCEPT !.nextIndex = i],
       value |-> i < Cardinality(DOMAIN beatArray) ]

\* a next that decodes the slot by the number of octaves instead of the
\* length of the scale
nextDecodesByOctaves(s, pitches, it) ==
  LET beatArray == s.seq[it.beat]
      i == advanceToNextActiveNote(beatArray, it.nextIndex)
      note == i % numOctaves(s)
      octave == s.lowOctave + (i \div numOctaves(s))
  IN [ it |-> [it EXCEPT !.nextIndex = i + 1],
       value |-> getNoteInOctave(pitches, octave, note) ]

\* NotesOnBeatIterator.next: the iterator after the call and the frequency
next(s, pitches, it) ==
  LET beatArray == s.seq[it.beat]
      i == advanceToNextActiveNote(beatArray, it.nextIndex)
      scaleLength == TuningLength(pitches)
      note == i % scaleLength
      octave == s.lowOctave + (i \div scaleLength)
  IN [ it |-> [it EXCEPT !.nextIndex = i + 1],
       value |-> getNoteInOctave(pitches, octave, note) ]

\* the frequencies while (iterator.hasNext) iterator.next yields, in order
RECURSIVE IteratedNotes(_, _, _)
IteratedNotes(s, pitches, it) ==
  LET h == hasNext(s, it)
  IN IF ~h.value THEN << >>
     ELSE LET r == next(s, pitches, h.it)
          IN << r.value >> \o IteratedNotes(s, pitches, r.it)

(***************************************************************************)
(* Scheduler.                                                              *)
(***************************************************************************)
\* 60 / x, in ms (the texts of BpmTexts divide 60000 exactly)
SixtyOver(x) ==
  IF x.k = "nan" THEN NaN
  ELSE IF x.k = "inf" THEN Fin(0)
  ELSE IF x.v = 0 THEN PlusInf
  ELSE IF x.v > 0 THEN Fin(MsPerMinute \div x.v)
  ELSE Fin(0 - (MsPerMinute \div (0 - x.v)))

\* nextNote: const period = 60 / this.bpm
Period(b) == SixtyOver(ToNumber(b))

\* a noteDuration that ignores bpm: the fixed 0.1 s of the first prototype
noteDurationFixed(b) == Fin(100)

\* get noteDuration: 1 / this.bpm * 60, in exact arithmetic
noteDuration(b) == SixtyOver(ToNumber(b))

\* a drain loop that looks behind the clock instead of ahead of it
LoopTestBehind(nnt, currentTime) ==
  Lt(nnt, Fin(currentTime - scheduleAheadTime))

\* the test of the drain loop:
\* this.nextNoteTime < this.audioCtx.currentTime + this.scheduleAheadTime
LoopTest(nnt, currentTime) == Lt(nnt, Fin(currentTime + scheduleAheadTime))

\* a scheduleNote that starts the oscillator at the note duration instead of
\* the scheduled time
scheduleNoteWrongStart(ev, c, freq, noteIndex, scheduledTime) ==
  Append(ev, [ type |-> c.waveform, freq |-> freq,
               noteIndex |-> noteIndex, start |-> noteDuration(c.bpm),
               stop |-> Add(scheduledTime, noteDuration(c.bpm)) ])

\* scheduleNote(freq, noteIndex, scheduledTime): the sound event appended to
\* those emitted so far.  c is the scheduler's configuration at the call.
scheduleNote(ev, c, freq, noteIndex, scheduledTime) ==
  Append(ev, [ type |-> c.waveform, freq |-> freq,
               noteIndex |-> noteIndex, start |-> scheduledTime,
               stop |-> Add(scheduledTime, noteDuration(c.bpm)) ])

\* while (iterator.hasNext) this.scheduleNote(iterator.next, ...)
RECURSIVE EmitNotes(_, _, _, _, _)
EmitNotes(it, ev, c, noteIndex, scheduledTime) ==
  LET h == hasNext(c.sequence, it)
  IN IF ~h.value THEN ev
     ELSE LET r == next(c.sequence, c.tuning, h.it)
          IN EmitNotes(r.it,
                       scheduleNote(ev, c, r.value, noteIndex, scheduledTime),
                       c, noteIndex, scheduledTime)

\* a nextNote that forgets currentNoteIndex++
nextNoteNoIncrement(d, c) ==
  [d EXCEPT !.nnt = Add(d.nnt, Period(c.bpm)),
            !.idx = d.idx % SequenceLength(c.sequence)]

\* a nextNote that puts the cursor back on beat 0
nextNoteBackToFirst(d, c) ==
  [d EXCEPT !.nnt = Add(d.nnt, Period(c.bpm)),
            !.idx = 0]

\* nextNote(): the new nextNoteTime and currentNoteIndex
nextNote(d, c) ==
  [d EXCEPT !.nnt = Add(d.nnt, Period(c.bpm)),
            !.idx = (d.idx + 1) % SequenceLength(c.sequence)]

\* one iteration of the drain loop: the notes of beat currentNoteIndex, then
\* nextNote
BeatStep(d, c) ==
  LET ev == EmitNotes(getIteratorAtBeat(d.idx), d.ev, c, d.idx, d.nnt)
      logged == [d EXCEPT !.ev = ev,
                          !.beats = Append(d.beats,
                                           [index |-> d.idx, time |-> d.nnt])]
  IN nextNote(logged, c)

\* the drain loop of lookAheadAndSchedule; an invocation still looping after
\* fuel iterations is reported as hung
RECURSIVE Drain(_, _, _)
Drain(d, c, fuel) ==
  IF ~LoopTest(d.nnt, c.now) THEN d
  ELSE IF fuel = 0 THEN [d EXCEPT !.hung = TRUE]
  ELSE Drain(BeatStep(d, c), c, fuel - 1)

\* lookAheadAndSchedule(), up to the setTimeout
lookAheadAndSchedule(c, idx, nnt, ev) ==
  Drain([idx |-> idx, nnt |-> nnt, ev |-> ev, beats |-> << >>,
         hung |-> FALSE], c, MaxDrain)

\* Scheduler.setBPM(bpm)
setBPM(b) == b

\* Scheduler.setWaveform(waveform)
setWaveform(w) == w

\* the Driver's test of a bpm input event: bpm !== NaN is true of every
\* number, NaN too
BpmAccepted(text) ==
  LET parsed == ParseFloat(text)
  IN /\ TRUE
     /\ IsPositive(parsed)
     /\ Lt(parsed, PlusInf)

(***************************************************************************)
(* The state after a handler that ran lookAheadAndSchedule: r is the       *)
(* result of the drain loop, fired the timeouts that ran.                  *)
(***************************************************************************)
\* window.setTimeout: the handle is an integer greater than zero that no
\* active timer has (the one running its callback is still active); the
\* smallest such is taken
NewTimerId(active) ==
  CHOOSE id \in 1 .. (Cardinality(active) + 1) :
    /\ \A t \in active : t.id # id
    /\ \A smaller \in 1 .. (id - 1) : \E t \in active : t.id = smaller

\* a lookAheadAndSchedule that does not keep the handle setTimeout returns
AfterPollDropsHandle(r, entry, fired) ==
  /\ currentNoteIndex' = r.idx
  /\ nextNoteTime' = r.nnt
  /\ events' = r.ev
  /\ hung' = r.hung
  /\ timerID' = timerID
  /\ timers' = IF r.hung THEN timers \ fired
               ELSE (timers \ fired)
                    \cup { [id |-> NewTimerId(timers),
                            due |-> now + lookAheadAndSchedulePeriod] }
  /\ lastPoll' = [at |-> now, entry |-> entry, beats |-> r.beats]
  /\ onTime' = (onTime /\ (fired = {}
                             \/ now - lastPoll.at < scheduleAheadTime))

AfterPoll(r, entry, fired) ==
  /\ currentNoteIndex' = r.idx
  /\ nextNoteTime' = r.nnt
  /\ events' = r.ev
  /\ hung' = r.hung
  /\ timerID' = IF r.hung THEN timerID ELSE NewTimerId(timers)
  /\ timers' = IF r.hung THEN timers \ fired
               ELSE (timers \ fired)
                    \cup { [id |-> NewTimerId(timers),
                            due |-> now + lookAheadAndSchedulePeriod] }
  /\ lastPoll' = [at |-> now, entry |-> entry, beats |-> r.beats]
  /\ onTime' = (onTime /\ (fired = {}
                             \/ now - lastPoll.at < scheduleAheadTime))

NoEdit ==
  [op |-> "none", beat |-> 0, octave |-> 0, note |-> 0, threw |-> FALSE]

\* no NotesOnBeatIterator is kept between handlers
NoIterator == [beat |-> 0, nextIndex |-> 0]

NoCalls ==
  [calls |-> 0, last |-> "none", answer |-> FALSE, returned |-> << >>,
   alternating |-> TRUE]

NoSequence ==
  [beats |-> << >>, lowOctave |-> 0, highOctave |-> 0, seq |-> << >>]

Init ==
  /\ clickedGo = FALSE
  /\ boxes = << >>
  /\ tuning = << >>
  /\ sequence = NoSequence
  /\ bpm = << >>
  /\ waveform = ""
  /\ currentNoteIndex = 0
  /\ nextNoteTime = Fin(0)
  /\ timerID = 0
  /\ timers = {}
  /\ now = 0
  /\ events = << >>
  /\ hung = FALSE
  /\ lastPoll = [at |-> 0, entry |-> Fin(0), beats |-> << >>]
  /\ onTime = TRUE
  /\ lastEdit = NoEdit
  /\ userEvents = 0
  /\ created = 0
  /\ cancelled = FALSE
  /\ iterator = NoIterator
  /\ iterLog = NoCalls

\* renderGrid: one unchecked checkbox per note i and beat j
renderGrid(s, pitches) ==
  [ i \in 0 .. (TuningLength(pitches) * numOctaves(s) - 1) |->
      [ j \in 0 .. (SequenceLength(s) - 1) |-> FALSE ] ]

\* renderGrid: the note and the octave of the checkboxes of row i
BoxNote(s, pitches, i) ==
  (TuningLength(pitches) * numOctaves(s) - i - 1) % TuningLength(pitches)

BoxOctave(s, pitches, i) ==
  s.lowOctave
    + ((TuningLength(pitches) * numOctaves(s) - i - 1)
         \div TuningLength(pitches))

\* a click handler of the Go button without the clickedGo test
ClickGoUnguarded ==
  \E fields \in FieldTexts,
     bpmText \in BpmTexts, waveformText \in WaveformTexts :
    LET t == EDOTuning(ReferencePitch, fields.edo)
        s == NewSequence(fields.numBeats, t,
                         DriverLowOctave, DriverHighOctave)
        c == [bpm |-> setBPM(bpmText),
              waveform |-> setWaveform(waveformText),
              sequence |-> s, tuning |-> t, now |-> now]
        r == lookAheadAndSchedule(c, 0, Fin(0), events)
    IN /\ ~hung
       /\ clickedGo' = TRUE
       /\ tuning' = t
       /\ sequence' = s
       /\ bpm' = c.bpm
       /\ waveform' = c.waveform
       /\ boxes' = renderGrid(s, t)
       /\ AfterPoll(r, Fin(0), {})
       /\ created' = created + 1
       /\ UNCHANGED << now, lastEdit, userEvents, cancelled, iterator,
                       iterLog >>

\* the click handler of the Go button; edo and numBeats are the closure
\* variables, bpmText and waveformText what getPlaceholderValue returns
ClickGo ==
  IF clickedGo
  THEN UNCHANGED vars
  ELSE \E fields \in FieldTexts,
          bpmText \in BpmTexts, waveformText \in WaveformTexts :
         LET t == EDOTuning(ReferencePitch, fields.edo)
             s == NewSequence(fields.numBeats, t,
                              DriverLowOctave, DriverHighOctave)
             c == [bpm |-> setBPM(bpmText),
                   waveform |-> setWaveform(waveformText),
                   sequence |-> s, tuning |-> t, now |-> now]
             r == lookAheadAndSchedule(c, 0, Fin(0), << >>)
         IN /\ clickedGo' = TRUE
            /\ tuning' = t
            /\ sequence' = s
            /\ bpm' = c.bpm
            /\ waveform' = c.waveform
            /\ boxes' = renderGrid(s, t)
            /\ AfterPoll(r, Fin(0), {})
            /\ created' = created + 1
            /\ UNCHANGED << now, lastEdit, userEvents, cancelled, iterator,
                            iterLog >>

\* a bpm input handler that also restarts the beat clock
BpmInputRestarts ==
  \E text \in BpmTexts :
    /\ clickedGo /\ ~hung
    /\ userEvents < MaxUserEvents
    /\ userEvents' = userEvents + 1
    /\ bpm' = IF BpmAccepted(text) THEN setBPM(text) ELSE bpm
    /\ nextNoteTime' = Fin(now)
    /\ UNCHANGED << clickedGo, boxes, tuning, sequence, waveform,
                    currentNoteIndex, timerID, timers, now,
                    events, hung, lastPoll, onTime, lastEdit,
                    created, cancelled, iterator, iterLog >>

\* the input handler of the bpm field
BpmInput ==
  \E text \in BpmTexts :
    /\ clickedGo /\ ~hung
    /\ userEvents < MaxUserEvents
    /\ userEvents' = userEvents + 1
    /\ bpm' = IF BpmAccepted(text) THEN setBPM(text) ELSE bpm
    /\ UNCHANGED << clickedGo, boxes, tuning, sequence, waveform,
                    currentNoteIndex, nextNoteTime, timerID, timers, now,
                    events, hung, lastPoll, onTime, lastEdit,
                    created, cancelled, iterator, iterLog >>

\* the input handler of the waveform field
WaveformInput ==
  \E text \in WaveformTexts :
    /\ clickedGo /\ ~hung
    /\ userEvents < MaxUserEvents
    /\ userEvents' = userEvents + 1
    /\ waveform' = setWaveform(text)
    /\ UNCHANGED << clickedGo, boxes, tuning, sequence, bpm,
                    currentNoteIndex, nextNoteTime, timerID, timers, now,
                    events, hung, lastPoll, onTime, lastEdit,
                    created, cancelled, iterator, iterLog >>

\* the input handler of the checkbox of note row i and beat j
Checkbox ==
  \E i \in DOMAIN boxes :
    \E j \in DOMAIN boxes[i] :
      LET checked == ~boxes[i][j]
          octave == BoxOctave(sequence, tuning, i)
          note == BoxNote(sequence, tuning, i)
      IN /\ clickedGo /\ ~hung
         /\ userEvents < MaxUserEvents
         /\ userEvents' = userEvents + 1
         /\ boxes' = [boxes EXCEPT ![i][j] = checked]
         /\ sequence' = IF checked
                        THEN setNote(sequence, tuning, j, octave, note)
                        ELSE unsetNote(sequence, tuning, j, octave, note)
         /\ lastEdit' = [op |-> IF checked THEN "set" ELSE "unset",
                         beat |-> j, octave |-> octave, note |-> note,
                         threw |-> StoreThrows(sequence, j)]
         /\ UNCHANGED << clickedGo, tuning, bpm, waveform, currentNoteIndex,
                         nextNoteTime, timerID, timers, now, events, hung,
                         lastPoll, onTime,
                         created, cancelled, iterator, iterLog >>

\* audioCtx.currentTime advances, up to maxTicks steps of the clock
ClockAdvance(maxTicks) ==
  /\ ~hung
  /\ now < maxTicks * ClockStep
  /\ now' = now + ClockStep
  /\ UNCHANGED << clickedGo, boxes, tuning, sequence, bpm, waveform,
                  currentNoteIndex, nextNoteTime, timerID, timers, events,
                  hung, lastPoll, onTime, lastEdit, userEvents,
                  created, cancelled, iterator, iterLog >>

\* the audio clock of the Driver's scheduler advances
Tick == clickedGo /\ ClockAdvance(MaxTicks)

\* a poll during which a checkbox callback runs: the cell of the lowest
\* octave's note 0 in the row of the cursor is set after the poll began
TimerFireInterleaved ==
  \E t \in timers :
    LET edited == setNote(sequence, tuning, currentNoteIndex,
                          DriverLowOctave, 0)
        c == [bpm |-> bpm, waveform |-> waveform, sequence |-> edited,
              tuning |-> tuning, now |-> now]
        r == lookAheadAndSchedule(c, currentNoteIndex, nextNoteTime, events)
    IN /\ ~hung
       /\ now >= t.due
       /\ AfterPoll(r, nextNoteTime, {t})
       /\ sequence' = edited
       /\ UNCHANGED << clickedGo, boxes, tuning, bpm, waveform,
                       now, lastEdit, userEvents,
                       created, cancelled, iterator, iterLog >>

\* a pending timeout runs lookAheadAndSchedule
TimerFire ==
  \E t \in timers :
    LET c == [bpm |-> bpm, waveform |-> waveform, sequence |-> sequence,
              tuning |-> tuning, now |-> now]
        r == lookAheadAndSchedule(c, currentNoteIndex, nextNoteTime, events)
    IN /\ ~hung
       /\ now >= t.due
       /\ AfterPoll(r, nextNoteTime, {t})
       /\ UNCHANGED << clickedGo, boxes, tuning, sequence, bpm, waveform,
                       now, lastEdit, userEvents,
                       created, cancelled, iterator, iterLog >>

Next ==
  \/ ClickGo
  \/ BpmInput
  \/ WaveformInput
  \/ Checkbox
  \/ Tick
  \/ TimerFire

Spec == Init /\ [][Next]_vars

(***************************************************************************)
(* The Driver with a caller that cancels the pending poll through the      *)
(* handle the scheduler keeps in timerID.                                  *)
(***************************************************************************)
\* window.clearTimeout(scheduler.timerID), called between two handlers
ClearTimeout ==
  /\ clickedGo /\ ~hung
  /\ ~cancelled
  /\ cancelled' = TRUE
  /\ timers' = { t \in timers : t.id # timerID }
  /\ UNCHANGED << clickedGo, boxes, tuning, sequence, bpm, waveform,
                  currentNoteIndex, nextNoteTime, timerID, now, events,
                  hung, lastPoll, onTime, lastEdit, userEvents, created,
                  iterator, iterLog >>

NextCancel ==
  \/ ClickGo
  \/ Checkbox
  \/ Tick
  \/ TimerFire
  \/ ClearTimeout

SpecCancel == Init /\ [][NextCancel]_vars

(***************************************************************************)
(* The scenario of main(): 12-EDO at 440 Hz, 8 beats, octaves 3..4, three  *)
(* cells set, the scheduler's default bpm and waveform, then               *)
(* lookAheadAndSchedule.  Numbers passed where the Driver passes the text  *)
(* of a field are written as their decimal text.                           *)
(***************************************************************************)
\* const tuning = new EDOTuning(440, 12)
E2ETuning == EDOTuning(ReferencePitch, << "1", "2" >>)

\* new Sequence(8, tuning, 3, 4), then setNote(0, 3, 0), setNote(3, 4, 0),
\* setNote(6, 4, 1)
E2ESequence ==
  LET fresh == NewSequence(<< "8" >>, E2ETuning, 3, 4)
      first == setNote(fresh, E2ETuning, 0, 3, 0)
      second == setNote(first, E2ETuning, 3, 4, 0)
  IN setNote(second, E2ETuning, 6, 4, 1)

\* the Scheduler constructor's this.bpm = 120.0 and this.waveform = "sine"
DefaultBpm == << "1", "2", "0" >>

DefaultWaveform == "sine"

\* the state when main() returns: the first lookAheadAndSchedule has run at
\* clock 0 and armed the poll timer
InitE2E ==
  LET c == [bpm |-> DefaultBpm, waveform |-> DefaultWaveform,
            sequence |-> E2ESequence, tuning |-> E2ETuning, now |-> 0]
      r == lookAheadAndSchedule(c, 0, Fin(0), << >>)
  IN /\ clickedGo = FALSE
     /\ boxes = << >>
     /\ tuning = E2ETuning
     /\ sequence = E2ESequence
     /\ bpm = DefaultBpm
     /\ waveform = DefaultWaveform
     /\ currentNoteIndex = r.idx
     /\ nextNoteTime = r.nnt
     /\ timerID = NewTimerId({})
     /\ timers = { [id |-> NewTimerId({}),
                    due |-> lookAheadAndSchedulePeriod] }
     /\ now = 0
     /\ events = r.ev
     /\ hung = r.hung
     /\ lastPoll = [at |-> 0, entry |-> Fin(0), beats |-> r.beats]
     /\ onTime = TRUE
     /\ lastEdit = NoEdit
     /\ userEvents = 0
     /\ created = 1
     /\ cancelled = FALSE
     /\ iterator = NoIterator
     /\ iterLog = NoCalls

\* the audio clock of main()'s scheduler advances
TickE2E == ClockAdvance(MaxTicksE2E)

NextE2E ==
  \/ TickE2E
  \/ TimerFire

SpecE2E == InitE2E /\ [][NextE2E]_vars

(***************************************************************************)
(* Sequence.setNote and Sequence.unsetNote on a freshly constructed grid,  *)
(* for every in-range beat, octave and note.                               *)
(***************************************************************************)
\* the texts of the edo and numBeats fields the grids are built from
GridFieldTexts ==
  { [edo |-> e, numBeats |-> b] :
      e \in { << "1" >>, << "2" >>, << "3" >> },
      b \in { << "1" >>, << "2" >> } }

\* the Tuning and the Sequence as the Go handler constructs them
InitGrid ==
  \E fields \in GridFieldTexts :
    /\ clickedGo = FALSE
    /\ boxes = << >>
    /\ tuning = EDOTuning(ReferencePitch, fields.edo)
    /\ sequence = NewSequence(fields.numBeats,
                              EDOTuning(ReferencePitch, fields.edo),
                              DriverLowOctave, DriverHighOctave)
    /\ bpm = << >>
    /\ waveform = ""
    /\ currentNoteIndex = 0
    /\ nextNoteTime = Fin(0)
    /\ timerID = 0
    /\ timers = {}
    /\ now = 0
    /\ events = << >>
    /\ hung = FALSE
    /\ lastPoll = [at |-> 0, entry |-> Fin(0), beats |-> << >>]
    /\ onTime = TRUE
    /\ lastEdit = NoEdit
    /\ userEvents = 0
    /\ created = 1
    /\ cancelled = FALSE
    /\ iterator = NoIterator
    /\ iterLog = NoCalls

\* a call sequence.setNote(beat, octave, noteIndex)
SetNoteCall ==
  \E beat \in DOMAIN sequence.seq :
    \E octave \in sequence.lowOctave .. sequence.highOctave :
      \E noteIndex \in DOMAIN tuning :
        /\ userEvents < MaxGridCalls
        /\ userEvents' = userEvents + 1
        /\ sequence' = setNote(sequence, tuning, beat, octave, noteIndex)
        /\ lastEdit' = [op |-> "set", beat |-> beat, octave |-> octave,
                        note |-> noteIndex,
                        threw |-> StoreThrows(sequence, beat)]
        /\ UNCHANGED << clickedGo, boxes, tuning, bpm, waveform,
                        currentNoteIndex, nextNoteTime, timerID, timers, now,
                        events, hung, lastPoll, onTime,
                        created, cancelled, iterator, iterLog >>

\* a call sequence.unsetNote(beat, octave, noteIndex)
UnsetNoteCall ==
  \E beat \in DOMAIN sequence.seq :
    \E octave \in sequence.lowOctave .. sequence.highOctave :
      \E noteIndex \in DOMAIN tuning :
        /\ userEvents < MaxGridCalls
        /\ userEvents' = userEvents + 1
        /\ sequence' = unsetNote(sequence, tuning, beat, octave, noteIndex)
        /\ lastEdit' = [op |-> "unset", beat |-> beat, octave |-> octave,
                        note |-> noteIndex,
                        threw |-> StoreThrows(sequence, beat)]
        /\ UNCHANGED << clickedGo, boxes, tuning, bpm, waveform,
                        currentNoteIndex, nextNoteTime, timerID, timers, now,
                        events, hung, lastPoll, onTime,
                        created, cancelled, iterator, iterLog >>

NextGrid ==
  \/ SetNoteCall
  \/ UnsetNoteCall

SpecGrid == InitGrid /\ [][NextGrid]_vars

(***************************************************************************)
(* The constructors and setNote/unsetNote with arguments of any kind: the  *)
(* field texts the Go handler would pass on unchecked, an octave range in  *)
(* either order, and coordinates in and just outside the grid.             *)
(***************************************************************************)
\* arguments of new EDOTuning(440, edo) and new Sequence(numBeats, tuning,
\* lowOctave, highOctave)
ApiArguments ==
  { [edo |-> e, numBeats |-> b, lowOctave |-> o[1], highOctave |-> o[2]] :
      e \in { << "0" >>, << "2" >>, << "-", "1" >> },
      b \in { << "0" >>, << "1" >>, << "-", "1" >> },
      o \in { << DriverLowOctave, DriverHighOctave >>,
              << DriverHighOctave, DriverLowOctave >> } }

\* the objects as the constructors return them
InitApi ==
  \E a \in ApiArguments :
    /\ clickedGo = FALSE
    /\ boxes = << >>
    /\ tuning = EDOTuning(ReferencePitch, a.edo)
    /\ sequence = NewSequence(a.numBeats, EDOTuning(ReferencePitch, a.edo),
                              a.lowOctave, a.highOctave)
    /\ bpm = << >>
    /\ waveform = ""
    /\ currentNoteIndex = 0
    /\ nextNoteTime = Fin(0)
    /\ timerID = 0
    /\ timers = {}
    /\ now = 0
    /\ events = << >>
    /\ hung = FALSE
    /\ lastPoll = [at |-> 0, entry |-> Fin(0), beats |-> << >>]
    /\ onTime = TRUE
    /\ lastEdit = NoEdit
    /\ userEvents = 0
    /\ created = 1
    /\ cancelled = FALSE
    /\ iterator = NoIterator
    /\ iterLog = NoCalls

\* the coordinates tried: those of the grid and the nearest ones outside
ApiBeats == (0 - 1) .. SequenceLength(sequence)

ApiOctaves ==
  { sequence.lowOctave - 1, sequence.lowOctave, sequence.highOctave,
    sequence.highOctave + 1 }

ApiNotes == (0 - 1) .. TuningLength(tuning)

\* the coordinates address a cell of the grid
InRange(beat, octave, noteIndex) ==
  /\ beat \in 0 .. (SequenceLength(sequence) - 1)
  /\ octave \in sequence.lowOctave .. sequence.highOctave
  /\ noteIndex \in 0 .. (TuningLength(tuning) - 1)

\* a call sequence.setNote(beat, octave, noteIndex) with any coordinates
SetNoteAnyCall ==
  \E beat \in ApiBeats, octave \in ApiOctaves, noteIndex \in ApiNotes :
    /\ userEvents < MaxApiCalls
    /\ userEvents' = userEvents + 1
    /\ sequence' = setNote(sequence, tuning, beat, octave, noteIndex)
    /\ lastEdit' = [op |-> "set", beat |-> beat, octave |-> octave,
                    note |-> noteIndex,
                    threw |-> StoreThrows(sequence, beat)]
    /\ UNCHANGED << clickedGo, boxes, tuning, bpm, waveform,
                    currentNoteIndex, nextNoteTime, timerID, timers, now,
                    events, hung, lastPoll, onTime,
                    created, cancelled, iterator, iterLog >>

\* a call sequence.unsetNote(beat, octave, noteIndex) with any coordinates
UnsetNoteAnyCall ==
  \E beat \in ApiBeats, octave \in ApiOctaves, noteIndex \in ApiNotes :
    /\ userEvents < MaxApiCalls
    /\ userEvents' = userEvents + 1
    /\ sequence' = unsetNote(sequence, tuning, beat, octave, noteIndex)
    /\ lastEdit' = [op |-> "unset", beat |-> beat, octave |-> octave,
                    note |-> noteIndex,
                    threw |-> StoreThrows(sequence, beat)]
    /\ UNCHANGED << clickedGo, boxes, tuning, bpm, waveform,
                    currentNoteIndex, nextNoteTime, timerID, timers, now,
                    events, hung, lastPoll, onTime,
                    created, cancelled, iterator, iterLog >>

NextApi ==
  \/ SetNoteAnyCall
  \/ UnsetNoteAnyCall

SpecApi == InitApi /\ [][NextApi]_vars

(***************************************************************************)
(* One NotesOnBeatIterator over a row that is not edited while it is used, *)
(* called through its two getters in any order.                            *)
(***************************************************************************)
\* the texts of the edo and numBeats fields the rows are built from
IterFieldTexts ==
  { [edo |-> e, numBeats |-> << "1" >>] : e \in { << "1" >>, << "2" >> } }

\* the grid after setNote for the slots of active in row beat
WithActive(s, beat, active) ==
  [s EXCEPT !.seq[beat] = [ j \in DOMAIN @ |-> j \in active ]]

\* a grid with any cells of beat 0 set, and sequence.getIteratorAtBeat(0)
InitIter ==
  \E fields \in IterFieldTexts :
    LET t == EDOTuning(ReferencePitch, fields.edo)
        fresh == NewSequence(fields.numBeats, t,
                             DriverLowOctave, DriverHighOctave)
    IN \E active \in SUBSET (DOMAIN fresh.seq[0]) :
         /\ clickedGo = FALSE
         /\ boxes = << >>
         /\ tuning = t
         /\ sequence = WithActive(fresh, 0, active)
         /\ bpm = << >>
         /\ waveform = ""
         /\ currentNoteIndex = 0
         /\ nextNoteTime = Fin(0)
         /\ timerID = 0
         /\ timers = {}
         /\ now = 0
         /\ events = << >>
         /\ hung = FALSE
         /\ lastPoll = [at |-> 0, entry |-> Fin(0), beats |-> << >>]
         /\ onTime = TRUE
         /\ lastEdit = NoEdit
         /\ userEvents = 0
         /\ created = 1
         /\ cancelled = FALSE
         /\ iterator = getIteratorAtBeat(0)
         /\ iterLog = NoCalls

\* a read of iterator.hasNext
HasNextCall ==
  LET h == hasNext(sequence, iterator)
  IN /\ iterLog.calls < MaxIterCalls
     /\ iterator' = h.it
     /\ iterLog' = [iterLog EXCEPT !.calls = @ + 1, !.last = "hasNext",
                                   !.answer = h.value]
     /\ UNCHANGED << clickedGo, boxes, tuning, sequence, bpm, waveform,
                     currentNoteIndex, nextNoteTime, timerID, timers, now,
                     events, hung, lastPoll, onTime, lastEdit, userEvents,
                     created, cancelled >>

\* a read of iterator.next; the log keeps the slot the frequency was decoded
\* from, and whether every next so far followed a hasNext that was true
NextCall ==
  LET r == next(sequence, tuning, iterator)
  IN /\ iterLog.calls < MaxIterCalls
     /\ iterator' = r.it
     /\ iterLog' =
          [iterLog EXCEPT
             !.calls = @ + 1, !.last = "next",
             !.returned = Append(@, [slot |-> r.it.nextIndex - 1,
                                     value |-> r.value]),
             !.alternating = @ /\ iterLog.last = "hasNext"
                               /\ iterLog.answer]
     /\ UNCHANGED << clickedGo, boxes, tuning, sequence, bpm, waveform,
                     currentNoteIndex, nextNoteTime, timerID, timers, now,
                     events, hung, lastPoll, onTime, lastEdit, userEvents,
                     created, cancelled >>

NextIter ==
  \/ HasNextCall
  \/ NextCall

SpecIter == InitIter /\ [][NextIter]_vars

(***************************************************************************)
(* The first prototype (src/unnamed/part_000): the same Tuning, Sequence   *)
(* and drain loop, a NotesOnBeatIterator whose next leaves nextIndex on    *)
(* the slot it returned, a fixed note duration and a sine oscillator.      *)
(* main() builds a 12-EDO grid of 8 beats and octaves 3..4, sets cells and *)
(* calls lookAheadAndSchedule.                                             *)
(***************************************************************************)
\* the setNote(beat, octave, noteIndex) calls of main()
MainCells == { << 0, 3, 0 >>, << 3, 4, 0 >>, << 6, 4, 1 >> }

\* the grid after setNote for every cell of cells
RECURSIVE WithCells(_, _, _)
WithCells(s, pitches, cells) ==
  IF cells = {} THEN s
  ELSE LET cell == CHOOSE x \in cells : TRUE
       IN WithCells(setNote(s, pitches, cell[1], cell[2], cell[3]),
                    pitches, cells \ { cell })

\* the prototype's NotesOnBeatIterator.next: advanceToNextActiveNote, then
\* the frequency of the slot; nextIndex stays on that slot
nextPrototype(s, pitches, it) ==
  LET beatArray == s.seq[it.beat]
      i == advanceToNextActiveNote(beatArray, it.nextIndex)
      scaleLength == TuningLength(pitches)
      note == i % scaleLength
      octave == s.lowOctave + (i \div scaleLength)
  IN [ it |-> [it EXCEPT !.nextIndex = i],
       value |-> getNoteInOctave(pitches, octave, note) ]

\* the prototype's scheduleNote: osc.type = "sine",
\* osc.stop(scheduledTime + this.noteDuration)
scheduleNotePrototype(ev, freq, noteIndex, scheduledTime) ==
  Append(ev, [ type |-> DefaultWaveform, freq |-> freq,
               noteIndex |-> noteIndex, start |-> scheduledTime,
               stop |-> Add(scheduledTime, Fin(PrototypeNoteDuration)) ])

\* the prototype's while (iterator.hasNext) this.scheduleNote(iterator.next,
\* ...): the events emitted, and whether the loop never ends.  The grid does
\* not change inside the loop, so an iteration that leaves the iterator as
\* it found it is followed by the same iteration for ever; the events then
\* hold the first of the endless run of equal events.
RECURSIVE EmitNotesPrototype(_, _, _, _, _)
EmitNotesPrototype(it, ev, c, noteIndex, scheduledTime) ==
  LET h == hasNext(c.sequence, it)
  IN IF ~h.value THEN [ev |-> ev, hung |-> FALSE]
     ELSE LET r == nextPrototype(c.sequence, c.tuning, h.it)
              emitted == scheduleNotePrototype(ev, r.value, noteIndex,
                                               scheduledTime)
          IN IF r.it = h.it THEN [ev |-> emitted, hung |-> TRUE]
             ELSE EmitNotesPrototype(r.it, emitted, c, noteIndex,
                                     scheduledTime)

\* the prototype's drain loop: the notes of beat currentNoteIndex, then
\* nextNote if the inner loop ended
RECURSIVE DrainPrototype(_, _, _)
DrainPrototype(d, c, fuel) ==
  IF ~LoopTest(d.nnt, c.now) THEN d
  ELSE IF fuel = 0 THEN [d EXCEPT !.hung = TRUE]
  ELSE LET e == EmitNotesPrototype(getIteratorAtBeat(d.idx), d.ev, c,
                                   d.idx, d.nnt)
           logged == [d EXCEPT !.ev = e.ev,
                               !.beats = Append(d.beats,
                                                [index |-> d.idx,
                                                 time |-> d.nnt])]
       IN IF e.hung THEN [logged EXCEPT !.hung = TRUE]
          ELSE DrainPrototype(nextNote(logged, c), c, fuel - 1)

\* the prototype's lookAheadAndSchedule(), up to the setTimeout
lookAheadAndSchedulePrototype(c, idx, nnt, ev) ==
  DrainPrototype([idx |-> idx, nnt |-> nnt, ev |-> ev, beats |-> << >>,
                  hung |-> FALSE], c, MaxDrain)

\* main() before new Scheduler(sequence), with any of its setNote calls made
InitPrototype ==
  \E cells \in SUBSET MainCells :
    /\ clickedGo = FALSE
    /\ boxes = << >>
    /\ tuning = E2ETuning
    /\ sequence = WithCells(NewSequence(<< "8" >>, E2ETuning, 3, 4),
                            E2ETuning, cells)
    /\ bpm = DefaultBpm
    /\ waveform = DefaultWaveform
    /\ currentNoteIndex = 0
    /\ nextNoteTime = Fin(0)
    /\ timerID = 0
    /\ timers = {}
    /\ now = 0
    /\ events = << >>
    /\ hung = FALSE
    /\ lastPoll = [at |-> 0, entry |-> Fin(0), beats |-> << >>]
    /\ onTime = TRUE
    /\ lastEdit = NoEdit
    /\ userEvents = 0
    /\ created = 0
    /\ cancelled = FALSE
    /\ iterator = NoIterator
    /\ iterLog = NoCalls

\* main(): new Scheduler(sequence); scheduler.lookAheadAndSchedule()
MainCall ==
  LET c == [bpm |-> bpm, sequence |-> sequence, tuning |-> tuning,
            now |-> now]
      r == lookAheadAndSchedulePrototype(c, 0, Fin(0), << >>)
  IN /\ created = 0
     /\ created' = 1
     /\ AfterPoll(r, Fin(0), {})
     /\ UNCHANGED << clickedGo, boxes, tuning, sequence, bpm, waveform, now,
                     lastEdit, userEvents, cancelled, iterator, iterLog >>

\* the audio clock of the prototype's scheduler advances
TickPrototype == created = 1 /\ ClockAdvance(MaxTicksPrototype)

\* a pending timeout runs the prototype's lookAheadAndSchedule
TimerFirePrototype ==
  \E t \in timers :
    LET c == [bpm |-> bpm, sequence |-> sequence, tuning |-> tuning,
              now |-> now]
        r == lookAheadAndSchedulePrototype(c, currentNoteIndex,
                                           nextNoteTime, events)
    IN /\ ~hung
       /\ now >= t.due
       /\ AfterPoll(r, nextNoteTime, {t})
       /\ UNCHANGED << clickedGo, boxes, tuning, sequence, bpm, waveform,
                       now, lastEdit, userEvents,
                       created, cancelled, iterator, iterLog >>

NextPrototype ==
  \/ MainCall
  \/ TickPrototype
  \/ TimerFirePrototype

SpecPrototype == InitPrototype /\ [][NextPrototype]_vars

(***************************************************************************)
(* The Driver over an unbounded run.  The code compares times only through *)
(* differences (nextNoteTime against currentTime + scheduleAheadTime, a    *)
(* timer's due time against the clock) and nextNote only adds a period, so *)
(* every time is kept relative to the audio clock: now stays 0, and a step *)
(* of the clock moves nextNoteTime and the due time of the pending timer   *)
(* back by one step.  events holds the sound events of the last invocation *)
(* of lookAheadAndSchedule; the histories of the input events are not      *)
(* kept, and any number of input events may come between two steps of the  *)
(* clock.  A timer's callback runs at most MaxLate steps of the clock      *)
(* after it is due.  The bpm field holds texts that keep the stored bpm     *)
(* positive and finite, and texts the handler rejects.                     *)
(***************************************************************************)
\* the texts of the bpm field that convert to a positive finite number
ValidBpmTexts ==
  { text \in BpmTexts :
      IsPositive(ToNumber(text)) /\ IsFinite(ToNumber(text)) }

\* the stored bpm converts to a positive finite number
ValidBpm == bpm \in ValidBpmTexts

\* the input handler of the bpm field
BpmInputAnytime ==
  \E text \in BpmTexts :
    /\ clickedGo /\ ~hung
    /\ bpm' = IF BpmAccepted(text) THEN setBPM(text) ELSE bpm
    /\ UNCHANGED << clickedGo, boxes, tuning, sequence, waveform,
                    currentNoteIndex, nextNoteTime, timerID, timers, now,
                    events, hung, lastPoll, onTime, lastEdit, userEvents,
                    created, cancelled, iterator, iterLog >>

\* the input handler of the waveform field
WaveformInputAnytime ==
  \E text \in WaveformTexts :
    /\ clickedGo /\ ~hung
    /\ waveform' = setWaveform(text)
    /\ UNCHANGED << clickedGo, boxes, tuning, sequence, bpm,
                    currentNoteIndex, nextNoteTime, timerID, timers, now,
                    events, hung, lastPoll, onTime, lastEdit, userEvents,
                    created, cancelled, iterator, iterLog >>

\* the checkboxes that are clicked: << note row, beat >>
ProgressBoxes == { << 0, 0 >> }

\* the input handler of the checkbox of note row i and beat j
CheckboxAnytime ==
  \E box \in ProgressBoxes :
    LET i == box[1]
        j == box[2]
        checked == ~boxes[i][j]
        octave == BoxOctave(sequence, tuning, i)
        note == BoxNote(sequence, tuning, i)
    IN /\ clickedGo /\ ~hung
       /\ boxes' = [boxes EXCEPT ![i][j] = checked]
       /\ sequence' = IF checked
                      THEN setNote(sequence, tuning, j, octave, note)
                      ELSE unsetNote(sequence, tuning, j, octave, note)
       /\ UNCHANGED << clickedGo, tuning, bpm, waveform, currentNoteIndex,
                       nextNoteTime, timerID, timers, now, events, hung,
                       lastPoll, onTime, lastEdit, userEvents,
                       created, cancelled, iterator, iterLog >>

\* audioCtx.currentTime advances by one step, unless the pending timer is
\* as late as a callback gets
TickRelative ==
  /\ clickedGo /\ ~hung
  /\ \A t \in timers : now - t.due < MaxLate * ClockStep
  /\ nextNoteTime' = Add(nextNoteTime, Fin(0 - ClockStep))
  /\ timers' = { [t EXCEPT !.due = @ - ClockStep] : t \in timers }
  /\ UNCHANGED << clickedGo, boxes, tuning, sequence, bpm, waveform,
                  currentNoteIndex, timerID, now, events, hung, lastPoll,
                  onTime, lastEdit, userEvents, created, cancelled, iterator,
                  iterLog >>

\* a pending timeout runs lookAheadAndSchedule
TimerFireRelative ==
  \E t \in timers :
    LET c == [bpm |-> bpm, waveform |-> waveform, sequence |-> sequence,
              tuning |-> tuning, now |-> now]
        r == lookAheadAndSchedule(c, currentNoteIndex, nextNoteTime, << >>)
    IN /\ ~hung
       /\ now >= t.due
       /\ AfterPoll(r, nextNoteTime, {t})
       /\ UNCHANGED << clickedGo, boxes, tuning, sequence, bpm, waveform,
                       now, lastEdit, userEvents,
                       created, cancelled, iterator, iterLog >>

\* the callback of the pending timer may run: the condition under which
\* TimerFireRelative can take a step
TimerDue == ~hung /\ \E t \in timers : now >= t.due

\* lookAheadAndSchedule ran in this step: it armed a timer and stored its
\* handle, one no active timer has, or it never returned
PollRan == timerID' # timerID \/ hung' # hung

\* the click handler of the Go button, the bpm field holding a text that
\* converts to a positive finite number
ClickGoValidBpm == ClickGo /\ ValidBpm'

\* the input handler of the bpm field, for the texts of BpmTexts that the
\* handler rejects or that leave the stored bpm positive and finite
BpmInputValidBpm == BpmInputAnytime /\ ValidBpm'

NextProgress ==
  \/ ClickGoValidBpm
  \/ BpmInputValidBpm
  \/ WaveformInputAnytime
  \/ CheckboxAnytime
  \/ TickRelative
  \/ TimerFireRelative

\* the clock keeps increasing, and a timer that is due eventually fires:
\* weak fairness of TickRelative and of TimerFireRelative, the latter
\* written out with the condition under which it can take a step (TimerDue)
\* and the steps that are its own (TimerDue /\ PollRan)
FairProgress ==
  /\ WF_vars(TickRelative)
  /\ []<>(~TimerDue) \/ []<><<TimerDue /\ PollRan>>_vars

SpecProgress == Init /\ [][NextProgress]_vars /\ FairProgress


(***************************************************************************)
(* Helpers of the properties.                                              *)
(***************************************************************************)
\* the step ran lookAheadAndSchedule
PollStep == lastPoll' # lastPoll

\* positions in events' of the sound events the step emitted
NewEventPositions == (Len(events) + 1) .. Len(events')

\* the duration an event was emitted with, stop - start (both finite)
FrozenDuration(e) == e.stop.v - e.start.v

\* the event has a finite start and a finite stop
HasFiniteTimes(e) == IsFinite(e.start) /\ IsFinite(e.stop)

(***************************************************************************)
(* C1. Look-ahead window of one poll: every sound event is emitted with a  *)
(* start time strictly less than currentTime + scheduleAheadTime; when the *)
(* drain loop exits, nextNoteTime >= currentTime + scheduleAheadTime, and  *)
(* only then is the poll timer re-armed, for lookAheadAndSchedulePeriod.   *)
(***************************************************************************)
C1_LookAheadWindow ==
  [][ PollStep =>
        /\ \A k \in NewEventPositions :
             Lt(events'[k].start, Fin(now + scheduleAheadTime))
        /\ (~hung' => timers' \ timers # {})
        /\ \A t \in timers' \ timers :
             /\ ~hung'
             /\ Ge(nextNoteTime', Fin(now + scheduleAheadTime))
             /\ t.due = now + lookAheadAndSchedulePeriod
             /\ t.id = timerID' ]_vars

(***************************************************************************)
(* C2. Advance step: each nextNote adds exactly 60/bpm (500 ms at bpm 120, *)
(* 1000 ms at bpm 60) to nextNoteTime and sets currentNoteIndex to         *)
(* (currentNoteIndex + 1) mod sequence.length; so currentNoteIndex is in   *)
(* [0, sequence.length) in every state, and the beats of an invocation are *)
(* scheduled in cyclic order from the cursor, none skipped or repeated.    *)
(***************************************************************************)
C2_AdvanceStep ==
  /\ [](clickedGo /\ SequenceLength(sequence) >= 1
          => currentNoteIndex \in 0 .. (SequenceLength(sequence) - 1))
  /\ [][ PollStep =>
           LET b == lastPoll'.beats
               n == Len(b)
               length == SequenceLength(sequence')
               number == ToNumber(bpm')
               sixtyOverBpm ==
                 IF number.k = "nan" THEN NaN
                 ELSE IF number.v = 0 THEN PlusInf
                 ELSE IF number.v > 0 THEN Fin(MsPerMinute \div number.v)
                 ELSE Fin(0 - (MsPerMinute \div (0 - number.v)))
           IN /\ number = Fin(120) => sixtyOverBpm = Fin(500)
              /\ number = Fin(60) => sixtyOverBpm = Fin(1000)
              /\ n = 0 => UNCHANGED << currentNoteIndex, nextNoteTime >>
              /\ n >= 1 =>
                   /\ b[1].index = currentNoteIndex
                   /\ b[1].time = nextNoteTime
                   /\ currentNoteIndex' = (b[n].index + 1) % length
                   /\ nextNoteTime' = Add(b[n].time, sixtyOverBpm)
              /\ \A k \in 1 .. (n - 1) :
                   /\ b[k + 1].index = (b[k].index + 1) % length
                   /\ b[k + 1].time = Add(b[k].time, sixtyOverBpm) ]_vars

\* an invocation that returned scheduled three beats or more of a sequence
\* of two, wrapping around
C2_Witness ==
  /\ ~hung
  /\ SequenceLength(sequence) = 2
  /\ Len(lastPoll.beats) >= 3
  /\ lastPoll.beats[1].time # lastPoll.beats[2].time

(***************************************************************************)
(* C3. Cross-beat ordering: whatever polls and setBPM calls are            *)
(* interleaved, the start times of the sound events are non-decreasing in  *)
(* the order the events are emitted.                                       *)
(***************************************************************************)
C3_NonDecreasingStarts ==
  \A k \in 1 .. (Len(events) - 1) :
    /\ IsFinite(events[k].start)
    /\ IsFinite(events[k + 1].start)
    /\ events[k].start.v <= events[k + 1].start.v

\* two events of different beats, the second emitted after a setBPM
C3_Witness ==
  \E k \in 1 .. (Len(events) - 1) :
    /\ HasFiniteTimes(events[k]) /\ HasFiniteTimes(events[k + 1])
    /\ events[k].start.v < events[k + 1].start.v
    /\ FrozenDuration(events[k]) # FrozenDuration(events[k + 1])

(***************************************************************************)
(* C4. Frozen note duration: a sound event is emitted with start = the     *)
(* nextNoteTime of its beat and stop = start + 60/bpm, bpm read when it is *)
(* emitted; no later step (a setBPM in particular) changes an emitted      *)
(* event, and events emitted after a setBPM use 60/newBpm.                 *)
(***************************************************************************)
C4_FrozenDuration ==
  [][ /\ Len(events') >= Len(events)
      /\ \A k \in 1 .. Len(events) : events'[k] = events[k]
      /\ \A k \in NewEventPositions :
           /\ \E i \in 1 .. Len(lastPoll'.beats) :
                /\ lastPoll'.beats[i].time = events'[k].start
                /\ lastPoll'.beats[i].index = events'[k].noteIndex
           /\ events'[k].stop
                = Add(events'[k].start, SixtyOver(ToNumber(bpm'))) ]_vars

\* an event that keeps the duration of the bpm before a setBPM, followed by
\* one emitted with the duration of the bpm now stored
C4_Witness ==
  \E i \in 1 .. Len(events) :
    \E j \in (i + 1) .. Len(events) :
      /\ HasFiniteTimes(events[i]) /\ HasFiniteTimes(events[j])
      /\ Fin(FrozenDuration(events[i])) # SixtyOver(ToNumber(bpm))
      /\ Fin(FrozenDuration(events[j])) = SixtyOver(ToNumber(bpm))

(***************************************************************************)
(* C5. Invalid live parameters never reach the scheduler: after any        *)
(* Driver events scheduler.bpm is a positive finite number and             *)
(* scheduler.waveform a recognised shape, so the note period and           *)
(* noteDuration are finite and positive.                                   *)
(***************************************************************************)
C5_ValidLiveParameters ==
  clickedGo =>
    /\ IsFinite(ToNumber(bpm)) /\ ToNumber(bpm).v > 0
    /\ waveform \in OscillatorTypes
    /\ IsFinite(Period(bpm)) /\ Period(bpm).v > 0
    /\ IsFinite(noteDuration(bpm)) /\ noteDuration(bpm).v > 0

(***************************************************************************)
(* C6. Bounded drain loop: every invocation of lookAheadAndSchedule        *)
(* terminates, and the beats one invocation schedules span no more than    *)
(* scheduleAheadTime of start times.                                       *)
(***************************************************************************)
C6_BoundedDrain ==
  /\ ~hung
  /\ Len(lastPoll.beats) >= 1 =>
       LET first == lastPoll.beats[1].time
           last == lastPoll.beats[Len(lastPoll.beats)].time
       IN /\ IsFinite(first) /\ IsFinite(last)
          /\ last.v - first.v <= scheduleAheadTime

(***************************************************************************)
(* C7. Jitter tolerance: when the first poll runs at clock 0 and every     *)
(* later poll starts less than scheduleAheadTime after the one before it,  *)
(* every sound event is emitted with start >= the clock at its emission.   *)
(***************************************************************************)
C7_JitterTolerance ==
  [][ PollStep /\ onTime' =>
        \A k \in NewEventPositions : Ge(events'[k].start, Fin(now)) ]_vars

\* polls on time so far, the last of them after the first, and it emitted
\* the last sound event
C7_Witness ==
  /\ onTime
  /\ lastPoll.at > 0
  /\ Len(events) >= 1
  /\ \E i \in 1 .. Len(lastPoll.beats) :
       lastPoll.beats[i].time = events[Len(events)].start

(***************************************************************************)
(* C8. setBPM and setWaveform are plain mutators: a bpm input changes      *)
(* bpm only and a waveform input waveform only (not currentNoteIndex,      *)
(* nextNoteTime, timerID, the grid or an emitted event); the events        *)
(* emitted afterwards carry the waveform and the period stored then; and   *)
(* currentNoteIndex and nextNoteTime change only where nextNote ran.       *)
(***************************************************************************)
C8_PlainMutators ==
  [][ /\ clickedGo /\ bpm' # bpm =>
           UNCHANGED << clickedGo, boxes, tuning, sequence, waveform,
                        currentNoteIndex, nextNoteTime, timerID, timers,
                        now, events, hung >>
      /\ clickedGo /\ waveform' # waveform =>
           UNCHANGED << clickedGo, boxes, tuning, sequence, bpm,
                        currentNoteIndex, nextNoteTime, timerID, timers,
                        now, events, hung >>
      /\ currentNoteIndex' # currentNoteIndex \/ nextNoteTime' # nextNoteTime
           => PollStep /\ Len(lastPoll'.beats) >= 1
      /\ \A k \in NewEventPositions :
           /\ events'[k].type = waveform'
           /\ events'[k].stop
                = Add(events'[k].start, SixtyOver(ToNumber(bpm'))) ]_vars

\* an event emitted with the waveform before a setWaveform, followed by one
\* emitted with the waveform now stored
C8_Witness ==
  \E i \in 1 .. Len(events) :
    \E j \in (i + 1) .. Len(events) :
      /\ events[i].type # waveform
      /\ events[j].type = waveform

C10_GridRoundTrip ==
  lastEdit.op # "none" =>
    LET yielded == IteratedNotes(sequence, tuning,
                                 getIteratorAtBeat(lastEdit.beat))
        N == TuningLength(tuning)
        index == (lastEdit.octave - sequence.lowOctave) * N + lastEdit.note
        wanted == getNoteInOctave(tuning, lastEdit.octave, lastEdit.note)
    IN /\ wanted = [ref |-> ReferencePitch,
                    oct |-> lastEdit.octave - StoredOctave,
                    step |-> lastEdit.note, div |-> N]
       /\ lastEdit.op = "set" =>
            /\ \E i \in 1 .. Len(yielded) : yielded[i] = wanted
            /\ index % N = lastEdit.note
            /\ sequence.lowOctave + (index \div N) = lastEdit.octave
       /\ lastEdit.op = "unset" =>
            \A i \in 1 .. Len(yielded) : yielded[i] # wanted

\* an unsetNote of a cell of the high octave that was set, on a beat where
\* another note stays active
C10_Witness ==
  /\ lastEdit.op = "unset"
  /\ lastEdit.octave = DriverHighOctave
  /\ lastEdit.note >= 1
  /\ userEvents = MaxGridCalls
  /\ Len(IteratedNotes(sequence, tuning,
                       getIteratorAtBeat(lastEdit.beat))) = 1

(***************************************************************************)
(* C11. Iterator single pass: used through alternating hasNext/next on a   *)
(* row that is not edited, the iterator returns each active slot of the    *)
(* row exactly once, in strictly increasing slot order; hasNext answers    *)
(* whether an active slot is still to be returned, so it is false on every *)
(* call after the last one was returned, and false at once on an empty row.*)
(***************************************************************************)
C11_SinglePass ==
  iterLog.alternating =>
    LET row == sequence.seq[iterator.beat]
        length == Cardinality(DOMAIN row)
        N == TuningLength(tuning)
        returned == iterLog.returned
        slots == { returned[k].slot : k \in 1 .. Len(returned) }
    IN /\ \A k \in 1 .. Len(returned) :
            /\ returned[k].slot \in DOMAIN row
            /\ row[returned[k].slot]
            /\ returned[k].value
                 = getNoteInOctave(tuning,
                                   sequence.lowOctave
                                     + (returned[k].slot \div N),
                                   returned[k].slot % N)
       /\ \A k \in 1 .. (Len(returned) - 1) :
            returned[k].slot < returned[k + 1].slot
       /\ slots = { j \in DOMAIN row : row[j] /\ j < iterator.nextIndex }
       /\ iterLog.last = "hasNext" =>
            iterLog.answer = (\E j \in DOMAIN row : row[j] /\ j \notin slots)

\* a row of four slots with three active ones, all returned, and a hasNext
\* after the last of them
C11_Witness ==
  /\ iterLog.alternating
  /\ Cardinality(DOMAIN sequence.seq[0]) = 4
  /\ ~sequence.seq[0][1]
  /\ Len(iterLog.returned) = 3
  /\ iterLog.last = "hasNext"
  /\ ~iterLog.answer

(***************************************************************************)
(* C12. Frame of setNote and unsetNote: with in-range coordinates a call   *)
(* makes the cell [beat][(octave - lowOctave) * N + noteIndex] true        *)
(* (false for unsetNote) and leaves every other cell and the dimensions    *)
(* beats x (N * numOctaves) as they were; a fresh Sequence has every cell  *)
(* false; the same call applied again gives the same grid.                 *)
(***************************************************************************)
C12_OneCell ==
  /\ [](userEvents = 0 =>
          \A b \in DOMAIN sequence.seq :
            \A j \in DOMAIN sequence.seq[b] : ~sequence.seq[b][j])
  /\ [][ userEvents' # userEvents =>
           LET e == lastEdit'
               N == TuningLength(tuning)
               length == SequenceLength(sequence)
               index == (e.octave - sequence.lowOctave) * N + e.note
               again == IF e.op = "set"
                        THEN setNote(sequence', tuning, e.beat, e.octave,
                                     e.note)
                        ELSE unsetNote(sequence', tuning, e.beat, e.octave,
                                       e.note)
           IN /\ ~e.threw
              /\ DOMAIN sequence'.seq = 0 .. (length - 1)
              /\ \A b \in 0 .. (length - 1) :
                   /\ DOMAIN sequence.seq[b] = 0 .. (N * numOctaves(sequence) - 1)
                   /\ DOMAIN sequence'.seq[b] = DOMAIN sequence.seq[b]
                   /\ \A j \in DOMAIN sequence.seq[b] :
                        sequence'.seq[b][j]
                          = IF b = e.beat /\ j = index THEN e.op = "set"
                            ELSE sequence.seq[b][j]
              /\ sequence'.beats = sequence.beats
              /\ sequence'.lowOctave = sequence.lowOctave
              /\ sequence'.highOctave = sequence.highOctave
              /\ again = sequence' ]_vars

\* three calls, the last of them a setNote, on a grid of two beats or more
\* where two cells are active
C12_Witness ==
  /\ lastEdit.op = "set"
  /\ userEvents = MaxGridCalls
  /\ Cardinality({ bj \in (DOMAIN sequence.seq) \X (0 .. 5) :
                     /\ bj[2] \in DOMAIN sequence.seq[bj[1]]
                     /\ sequence.seq[bj[1]][bj[2]] }) = 2
  /\ \E b \in DOMAIN sequence.seq : b # lastEdit.beat

\* the step read iterator.hasNext
HasNextStep == iterLog'.calls # iterLog.calls /\ iterLog'.last = "hasNext"

(***************************************************************************)
(* C13, as stated. hasNext is a pure query: a read of hasNext leaves       *)
(* nextIndex unchanged, and reads in a row, with no next in between,       *)
(* return the same answer.                                                 *)
(***************************************************************************)
C13_PureQuery ==
  [][ HasNextStep =>
        /\ iterator'.nextIndex = iterator.nextIndex
        /\ iterLog.last = "hasNext" => iterLog'.answer = iterLog.answer ]_vars

(***************************************************************************)
(* C13, amended. hasNext is idempotent: a read may move nextIndex forward, *)
(* over inactive slots only, to the next active slot or to the end of the  *)
(* row; a read that directly follows another read of hasNext leaves        *)
(* nextIndex unchanged and returns the same answer; and a read never       *)
(* changes what the next read of next returns.                             *)
(***************************************************************************)
C13_IdempotentQuery ==
  [][ HasNextStep =>
        LET row == sequence.seq[iterator.beat]
        IN /\ iterator'.beat = iterator.beat
           /\ iterator'.nextIndex >= iterator.nextIndex
           /\ \A j \in iterator.nextIndex .. (iterator'.nextIndex - 1) :
                j \in DOMAIN row /\ ~row[j]
           /\ iterLog.last = "hasNext" =>
                /\ iterator'.nextIndex = iterator.nextIndex
                /\ iterLog'.answer = iterLog.answer
           /\ next(sequence, tuning, iterator')
                = next(sequence, tuning, iterator) ]_vars

\* three reads of hasNext in a row on a fresh iterator whose row starts
\* with an inactive slot and has an active one
C13_Witness ==
  /\ iterLog.calls = 3
  /\ iterLog.last = "hasNext"
  /\ iterLog.returned = << >>
  /\ iterLog.answer
  /\ iterator.nextIndex > 0

(***************************************************************************)
(* C14. Out-of-range coordinates: a setNote or unsetNote whose beat,       *)
(* octave or noteIndex is outside the grid fails with an error and leaves  *)
(* the grid, its cells and its dimensions, as it was.                      *)
(***************************************************************************)
C14_OutOfRangeRejected ==
  [][ userEvents' # userEvents =>
        LET e == lastEdit'
        IN ~InRange(e.beat, e.octave, e.note) =>
             /\ e.threw
             /\ sequence' = sequence ]_vars

(***************************************************************************)
(* C15. Construction fails fast: no EDOTuning of length 0 and no Sequence  *)
(* with zero rows or zero columns is ever returned by a constructor.       *)
(***************************************************************************)
C15_NoDegenerateObject ==
  userEvents = 0 =>
    /\ TuningLength(tuning) >= 1
    /\ SequenceLength(sequence) >= 1
    /\ sequence.lowOctave <= sequence.highOctave
    /\ \A b \in DOMAIN sequence.seq :
         Cardinality(DOMAIN sequence.seq[b]) >= 1

(***************************************************************************)
(* C16. Cancellation through the timer handle: between polls timerID is    *)
(* the handle of the one pending poll timer; once that handle is cancelled *)
(* no timer is pending, lookAheadAndSchedule does not run again, no sound  *)
(* event is emitted, and the events already emitted stay as they were.     *)
(***************************************************************************)
C16_Cancellation ==
  /\ [](clickedGo /\ ~hung /\ ~cancelled =>
          \E t \in timers : timers = {t} /\ t.id = timerID)
  /\ [](cancelled => timers = {})
  /\ [][ cancelled' =>
           /\ ~PollStep
           /\ events' = events
           /\ UNCHANGED << currentNoteIndex, nextNoteTime, timerID >> ]_vars

\* the handle was cancelled, the clock is past the time the poll was due,
\* and that poll would have emitted a note: a beat with an active cell is
\* inside the look-ahead window
C16_Witness ==
  /\ cancelled
  /\ now >= lastPoll.at + lookAheadAndSchedulePeriod
  /\ LoopTest(nextNoteTime, now)
  /\ \E j \in DOMAIN sequence.seq[currentNoteIndex] :
       sequence.seq[currentNoteIndex][j]

(***************************************************************************)
(* C17. Octave scaling: for every note n of the tuning and every octave o, *)
(* getNoteInOctave(o + 1, n) = 2 * getNoteInOctave(o, n) and               *)
(* getNoteInOctave(4, n) = getNote(n); an EDOTuning built with             *)
(* divisions >= 1 has length = divisions and getNote(0) = referencePitch.  *)
(***************************************************************************)
C17_OctaveScaling ==
  LET N == TuningLength(tuning)
  IN /\ \A n \in 0 .. (N - 1) :
          /\ getNote(tuning, n) # NaNFrequency
          /\ getNote(tuning, n).div = N
          /\ getNoteInOctave(tuning, 4, n) = getNote(tuning, n)
          /\ \A o \in (0 - MaxOctave) .. MaxOctave :
               getNoteInOctave(tuning, o + 1, n)
                 = Double(getNoteInOctave(tuning, o, n))
     /\ N >= 1 =>
          getNote(tuning, 0)
            = [ref |-> ReferencePitch, oct |-> 0, step |-> 0, div |-> N]

\* in a tuning of three notes, the note of octave 4 a fresh iterator
\* yields is twice the same note of octave 3
C17_Witness ==
  /\ TuningLength(tuning) = 3
  /\ lastEdit.op = "set"
  /\ lastEdit.octave = 4
  /\ lastEdit.note = 2
  /\ \E i \in 1 .. Len(IteratedNotes(sequence, tuning,
                                      getIteratorAtBeat(lastEdit.beat))) :
       IteratedNotes(sequence, tuning, getIteratorAtBeat(lastEdit.beat))[i]
         = Double(getNoteInOctave(tuning, 3, 2))

\* the slots of row beat that are set
ActiveSlots(s, beat) == { j \in DOMAIN s.seq[beat] : s.seq[beat][j] }

\* the positions of the emitted events of a beat scheduled at time
EventsOfBeat(ev, index, time) ==
  { i \in DOMAIN ev : ev[i].noteIndex = index /\ ev[i].start = time }

(***************************************************************************)
(* C18: per-beat emission loop.  For every grid, the inner loop            *)
(* while (iterator.hasNext) scheduleNote(iterator.next, ...) ends, and     *)
(* every beat the last invocation of lookAheadAndSchedule reached has one  *)
(* event per active cell of its row, all starting at the beat's            *)
(* nextNoteTime, and was followed by one nextNote: the beats of the        *)
(* invocation are consecutive rows, and the cursor is one past the last.   *)
(***************************************************************************)
C18_EmissionLoop ==
  /\ ~hung
  /\ \A k \in DOMAIN lastPoll.beats :
       LET beat == lastPoll.beats[k]
       IN /\ Cardinality(EventsOfBeat(events, beat.index, beat.time))
               = Cardinality(ActiveSlots(sequence, beat.index))
          /\ IF k < Len(lastPoll.beats)
             THEN lastPoll.beats[k + 1].index
                    = (beat.index + 1) % SequenceLength(sequence)
             ELSE currentNoteIndex
                    = (beat.index + 1) % SequenceLength(sequence)

(***************************************************************************)
(* C19: single poll chain.  Whatever Go clicks, input events and timer     *)
(* firings happened, at most one Tuning/Sequence/Scheduler triple was      *)
(* created and at most one poll timer is pending; while the scheduler      *)
(* runs, the pending timer is the one the last invocation of               *)
(* lookAheadAndSchedule armed, and timerID is its handle.  An invocation   *)
(* consumes the pending timer and, when it returns, arms exactly one new   *)
(* one; no other step arms or removes a timer or emits an event, and a     *)
(* step that does not create the triple leaves the objects in place.       *)
(***************************************************************************)
C19_SinglePollChain ==
  /\ [](/\ created <= 1
        /\ clickedGo <=> created = 1
        /\ Cardinality(timers) <= 1
        /\ clickedGo /\ ~hung =>
             timers = { [id |-> timerID,
                         due |-> lastPoll.at + lookAheadAndSchedulePeriod] }
        /\ ~clickedGo \/ hung => timers = {})
  /\ [][/\ PollStep =>
             /\ timers \cap timers' = {}
             /\ ~hung' =>
                  timers' = { [id |-> timerID',
                               due |-> now + lookAheadAndSchedulePeriod] }
        /\ ~PollStep => timers' = timers /\ events' = events
        /\ created' = created =>
             /\ tuning' = tuning
             /\ DOMAIN boxes' = DOMAIN boxes
             /\ DOMAIN sequence'.seq = DOMAIN sequence.seq]_vars

\* the chain is running: the poll of the Go click armed a timer, it fired,
\* the poll it ran has armed the one pending timer, and input events were
\* handled in between
C19_Witness ==
  /\ clickedGo /\ ~hung
  /\ created = 1
  /\ userEvents = MaxUserEvents
  /\ lastPoll.at >= 2 * lookAheadAndSchedulePeriod
  /\ Cardinality(timers) = 1
  /\ Len(events) >= 2

\* the frequencies of the cells set in row beat, as next decodes the slots
ActiveNotes(s, pitches, beat) ==
  { getNoteInOctave(pitches,
                    s.lowOctave + (j \div TuningLength(pitches)),
                    j % TuningLength(pitches)) : j \in ActiveSlots(s, beat) }

\* the grid when the invocation of lookAheadAndSchedule of this step began:
\* the one the Go click has just constructed, or the one of the state before
GridAtPollStart == IF created' = created THEN sequence ELSE sequence'

(***************************************************************************)
(* C20: grid edits are atomic with respect to a beat.  An invocation of    *)
(* lookAheadAndSchedule creates and drains its iterators in one step, in   *)
(* which no setNote/unsetNote runs: the grid is the same after it as       *)
(* before.  For every beat the invocation schedules, the notes it emits    *)
(* for the beat are those of the cells set in that row when the invocation *)
(* began, one event per cell.  A step that edits the grid emits nothing,   *)
(* leaves the cursor and nextNoteTime alone, and no step changes an event  *)
(* already emitted: the edit shows in the events of the next invocation    *)
(* that reaches the row.                                                   *)
(***************************************************************************)
C20_AtomicEdits ==
  [][/\ PollStep =>
          /\ sequence' = GridAtPollStart
          /\ lastEdit' = lastEdit
          /\ \A k \in DOMAIN lastPoll'.beats :
               LET beat == lastPoll'.beats[k]
                   emitted == { i \in NewEventPositions :
                                  /\ events'[i].noteIndex = beat.index
                                  /\ events'[i].start = beat.time }
               IN /\ { events'[i].freq : i \in emitted }
                       = ActiveNotes(GridAtPollStart, tuning', beat.index)
                  /\ Cardinality(emitted)
                       = Cardinality(ActiveSlots(GridAtPollStart, beat.index))
     /\ created' = created /\ sequence' # sequence =>
          /\ ~PollStep
          /\ events' = events
          /\ currentNoteIndex' = currentNoteIndex
          /\ nextNoteTime' = nextNoteTime
          /\ timers' = timers
     /\ Len(events') >= Len(events)
     /\ SubSeq(events', 1, Len(events)) = events]_vars

\* beat 0 was scheduled from the empty grid of the Go click, its cell was
\* set afterwards, and the only event so far is the one of the next time the
\* cursor reached beat 0
C20_Witness ==
  /\ clickedGo /\ ~hung
  /\ lastEdit.op = "set" /\ lastEdit.beat = 0
  /\ Len(events) = 1
  /\ events[1].noteIndex = 0
  /\ IsFinite(events[1].start) /\ events[1].start.v > 0
  /\ events[1].freq
       = getNoteInOctave(tuning, lastEdit.octave, lastEdit.note)

\* the beats of the grids of FieldTexts
ProgressBeats ==
  UNION { DOMAIN NewSequence(f.numBeats, EDOTuning(ReferencePitch, f.edo),
                             DriverLowOctave, DriverHighOctave).seq :
            f \in FieldTexts }

\* the step ran lookAheadAndSchedule to its setTimeout, and its drain loop
\* scheduled beat b
SchedulesBeat(b) ==
  /\ timerID' # timerID
  /\ \E k \in DOMAIN lastPoll'.beats : lastPoll'.beats[k].index = b

(***************************************************************************)
(* C21: playback progress.  If Go is clicked, the clock keeps increasing,  *)
(* the pending timer always eventually fires and the stored bpm is always  *)
(* positive and finite (the field texts of SpecProgress), then whatever    *)
(* setBPM, setWaveform, setNote and unsetNote calls are interleaved: no    *)
(* invocation of lookAheadAndSchedule loops for ever; every beat of the    *)
(* grid is scheduled again and again; and nextNoteTime grows without       *)
(* bound: it is never further behind the clock than the time a callback    *)
(* may take to run short of scheduleAheadTime, the drain loop moves it     *)
(* ahead again and again, and no other step moves it (a step of the clock  *)
(* moves it back by that step relative to the clock).                      *)
(***************************************************************************)
C21_PlaybackProgress ==
  /\ [](clickedGo =>
         /\ ValidBpm
         /\ ~hung
         /\ Ge(nextNoteTime,
               Fin(now + scheduleAheadTime - (MaxLate + 1) * ClockStep)))
  /\ [][\/ Ge(nextNoteTime', nextNoteTime)
        \/ nextNoteTime' = Add(nextNoteTime, Fin(0 - ClockStep))]_vars
  /\ <>clickedGo =>
       /\ \A b \in ProgressBeats : []<><<SchedulesBeat(b)>>_vars
       /\ []<><<Lt(nextNoteTime, nextNoteTime')>>_vars

\* a poll that ran late, at a valid bpm and on an edited grid, wrapped the
\* cursor around: it scheduled the last beat and then beat 0
C21_Witness ==
  /\ clickedGo /\ ~hung /\ ValidBpm
  /\ \E i \in DOMAIN boxes : \E j \in DOMAIN boxes[i] : boxes[i][j]
  /\ \E k \in 1 .. (Len(lastPoll.beats) - 1) :
       /\ lastPoll.beats[k].index = SequenceLength(sequence) - 1
       /\ lastPoll.beats[k + 1].index = 0
  /\ Lt(lastPoll.entry, Fin(scheduleAheadTime - 2 * ClockStep))
  /\ Len(events) >= 1

=============================================================================
